---------------------------- MODULE Spec2Model ----------------------------
(***************************************************************************)
(* A model of ts-sandbox/index.ts: a script that zips the files a glob     *)
(* matches with three libraries (fflate, JSZip, UZIP), writes each archive *)
(* and logs its md5.  Paths and buffers are sequences of byte values, a    *)
(* Date is a (day, second-of-day) pair or the Invalid Date.                *)
(***************************************************************************)
EXTENDS Integers, Sequences, FiniteSets, TLC

\* ------------------------------------------------------------ bounds ----
\* Host timezones run from UTC-MaxTz to UTC+MaxTz, in whole hours.
MaxTz == 1

TZOffsets == (0 - MaxTz)..MaxTz

\* ------------------------------------------------------- arithmetic ----
RECURSIVE Pow2(_)
Pow2(n) == IF n = 0 THEN 1 ELSE 2 * Pow2(n - 1)

\* JavaScript's x << n and x >>> n on the 16 bits that reach the archive.
Shl(x, n) == (x * Pow2(n)) % 65536
Shr(x, n) == x \div Pow2(n)

RECURSIVE BitOr(_, _)
BitOr(a, b) ==
  IF a = 0 THEN b
  ELSE IF b = 0 THEN a
  ELSE (IF (a % 2 = 1) \/ (b % 2 = 1) THEN 1 ELSE 0)
       + 2 * BitOr(a \div 2, b \div 2)

RECURSIVE BitAnd(_, _)
BitAnd(a, b) ==
  IF a = 0 \/ b = 0 THEN 0
  ELSE (IF (a % 2 = 1) /\ (b % 2 = 1) THEN 1 ELSE 0)
       + 2 * BitAnd(a \div 2, b \div 2)

\* ------------------------------------------------------------ bytes ----
U16LE(n) == <<n % 256, (n \div 256) % 256>>
U32LE(n) == U16LE(n % 65536) \o U16LE(n \div 65536)

\* The little-endian fields of buffer b at 0-based offset o.
Rd16(b, o) == b[o + 1] + 256 * b[o + 2]
Rd32(b, o) == Rd16(b, o) + 65536 * Rd16(b, o + 2)
Slice(b, o, n) == SubSeq(b, o + 1, o + n)

\* --------------------------------------------------------- calendar ----
IsLeap(y) == (y % 4 = 0 /\ y % 100 # 0) \/ (y % 400 = 0)

DaysInMonth(y, m) ==
  IF m = 2 THEN (IF IsLeap(y) THEN 29 ELSE 28)
  ELSE IF m \in {4, 6, 9, 11} THEN 30 ELSE 31

\* Days since 1970-01-01 of a proleptic Gregorian date (ECMAScript MakeDay).
DaysFromCivil(y, m, d) ==
  LET yy  == IF m <= 2 THEN y - 1 ELSE y
      era == yy \div 400
      yoe == yy - era * 400
      mp  == IF m > 2 THEN m - 3 ELSE m + 9
      doy == (153 * mp + 2) \div 5 + d - 1
      doe == yoe * 365 + yoe \div 4 - yoe \div 100 + doy
  IN  era * 146097 + doe - 719468

\* The date of a day number (ECMAScript YearFromTime, MonthFromTime, DateFromTime).
CivilFromDays(z0) ==
  LET z   == z0 + 719468
      era == z \div 146097
      doe == z - era * 146097
      yoe == (doe - doe \div 1460 + doe \div 36524 - doe \div 146096) \div 365
      doy == doe - (365 * yoe + yoe \div 4 - yoe \div 100)
      mp  == (5 * doy + 2) \div 153
      d   == doy - (153 * mp + 2) \div 5 + 1
      m   == IF mp < 10 THEN mp + 3 ELSE mp - 9
      y   == yoe + era * 400 + (IF m <= 2 THEN 1 ELSE 0)
  IN  [y |-> y, m |-> m, d |-> d]

\* ------------------------------------------------------------- Date ----
InvalidDate == [valid |-> FALSE, day |-> 0, sod |-> 0]

\* A Date shifted by a number of seconds.
ShiftDate(dt, secs) ==
  LET total == dt.sod + secs
  IN  [valid |-> TRUE, day |-> dt.day + total \div 86400, sod |-> total % 86400]

\* The calendar fields of a valid Date read in a zone tzh hours east of UTC:
\* getFullYear() ... getSeconds() with the host's zone, getUTC*() with 0.
DateFields(dt, tzh) ==
  LET l == ShiftDate(dt, tzh * 3600)
      c == CivilFromDays(l.day)
  IN  [y |-> c.y, m |-> c.m, d |-> c.d,
       h |-> l.sod \div 3600, mi |-> (l.sod % 3600) \div 60, s |-> l.sod % 60]

\* The Date expressions handed to withDate as args.date.  kind "iso" is
\* new Date("yyyy-mm-ddThh:mm:ss.000Z") with the month as written; kind "num"
\* is new Date(y, monthIndex, d, h), local time, month counted from 0.
IsoExpr(y, m, d, h, mi, s) ==
  [kind |-> "iso", y |-> y, m |-> m, d |-> d, h |-> h, mi |-> mi, s |-> s]
NumExpr(y, m, d, h) ==
  [kind |-> "num", y |-> y, m |-> m, d |-> d, h |-> h, mi |-> 0, s |-> 0]

Date1980Iso == IsoExpr(1980, 0, 0, 0, 0, 0)
Date1986Iso == IsoExpr(1986, 1, 1, 3, 0, 0)
Date1980Num == NumExpr(1980, 0, 1, 0)
Date1986Num == NumExpr(1986, 0, 1, 3)

DateExprs ==
  { Date1980Iso, Date1986Iso, Date1980Num, Date1986Num,
    IsoExpr(1980, 1, 1, 0, 0, 0),
    IsoExpr(1979, 12, 31, 23, 59, 59),
    IsoExpr(2100, 1, 1, 0, 0, 5),
    IsoExpr(2108, 1, 1, 0, 0, 0) }

\* The calendar fields an expression names (month 1..12).
ExprFields(e) ==
  [y |-> e.y, m |-> IF e.kind = "num" THEN e.m + 1 ELSE e.m, d |-> e.d,
   h |-> e.h, mi |-> e.mi, s |-> e.s]

CalendarValid(f) ==
  /\ f.m \in 1..12
  /\ f.d >= 1 /\ f.d <= DaysInMonth(f.y, f.m)
  /\ f.h \in 0..23 /\ f.mi \in 0..59 /\ f.s \in 0..59

\* new Date(...): an ISO string with an out-of-range element parses to NaN;
\* the numeric constructor reads its fields in the host's zone.
EvalDate(e, tzh) ==
  LET f    == ExprFields(e)
      asUtc == [valid |-> TRUE, day |-> DaysFromCivil(f.y, f.m, f.d),
                sod |-> f.h * 3600 + f.mi * 60 + f.s]
  IN  IF ~CalendarValid(f) THEN InvalidDate
      ELSE IF e.kind = "iso" THEN asUtc
      ELSE ShiftDate(asUtc, 0 - tzh * 3600)

\* -------------------------------------------------- timestamp codec ----
\* The packed date and time of the archive format; << here is the shift of
\* the integers, so that a value too wide for its 16-bit field shows.
ShlInt(x, n) == x * Pow2(n)

PackDate(y, m, d) == BitOr(BitOr(ShlInt(y - 1980, 9), ShlInt(m, 5)), d)

PackTimeNoHalve(h, mi, s) == BitOr(BitOr(ShlInt(h, 11), ShlInt(mi, 5)), s)
PackTime(h, mi, s) == BitOr(BitOr(ShlInt(h, 11), ShlInt(mi, 5)), s \div 2)

UnpackDate(v) ==
  [y |-> 1980 + Shr(v, 9), m |-> BitAnd(Shr(v, 5), 15), d |-> BitAnd(v, 31)]
UnpackTime(v) ==
  [h |-> Shr(v, 11), mi |-> BitAnd(Shr(v, 5), 63), s |-> 2 * BitAnd(v, 31)]

InRange(f) == f.y >= 1980 /\ f.y <= 2107 /\ CalendarValid(f)

\* ------------------------------------------------------ file system ----
\* The paths the glob can match, as their UTF-16 code units: "10", "2", "a.txt".
Path10 == <<49, 48>>
Path2 == <<50>>
PathA == <<97, 46, 116, 120, 116>>
Paths == {Path10, Path2, PathA}

\* The bytes of each file: "x", "yy", "AAA".
FileBytes(p) ==
  IF p = Path10 THEN <<120>>
  ELSE IF p = Path2 THEN <<121, 121>>
  ELSE <<65, 65, 65>>

\* ---------------------------------------------------------- getFiles ----
\* Array.prototype.sort() without a comparator: by UTF-16 code units.
RECURSIVE LexLess(_, _)
LexLess(a, b) ==
  IF a = <<>> THEN b # <<>>
  ELSE IF b = <<>> THEN FALSE
  ELSE IF Head(a) < Head(b) THEN TRUE
  ELSE IF Head(a) > Head(b) THEN FALSE
  ELSE LexLess(Tail(a), Tail(b))

RECURSIVE SortLex(_)
SortLex(S) ==
  IF S = {} THEN <<>>
  ELSE LET least == CHOOSE p \in S : \A q \in S \ {p} : LexLess(p, q)
       IN  <<least>> \o SortLex(S \ {least})

\* A slot of the Promise.all result array whose promise is still pending.
Hole == [path |-> <<>>, buffer |-> <<>>]

\* A settled read: Promise.all stores the value at the index of its promise.
CollectPush(res, i, entry) ==
  LET k == CHOOSE j \in 1..Len(res) :
             res[j] = Hole /\ \A l \in 1..(j - 1) : res[l] # Hole
  IN  [res EXCEPT ![k] = entry]
Collect(res, i, entry) == [res EXCEPT ![i] = entry]

\* ------------------------------------------------- JavaScript objects ----
\* An object is the sequence of its (key, value) pairs in insertion order.
\* A key that is a canonical array index ("0", "2", "10": at most 9 digits
\* here) is enumerated before every other key, in ascending numeric order.
IsArrayIndex(p) ==
  /\ Len(p) >= 1 /\ Len(p) <= 9
  /\ \A i \in 1..Len(p) : p[i] >= 48 /\ p[i] <= 57
  /\ (Len(p) = 1 \/ p[1] # 48)

RECURSIVE IndexValue(_)
IndexValue(p) ==
  IF p = <<>> THEN 0
  ELSE 10 * IndexValue(SubSeq(p, 1, Len(p) - 1)) + (p[Len(p)] - 48)

\* { ...acc, [path]: buffer }: a key already present keeps its place and
\* takes the new value; a new key goes last.
ObjSet(obj, k, v) ==
  IF \E i \in 1..Len(obj) : obj[i].path = k
  THEN [i \in 1..Len(obj) |->
          IF obj[i].path = k THEN [path |-> k, buffer |-> v] ELSE obj[i]]
  ELSE Append(obj, [path |-> k, buffer |-> v])

RECURSIVE ReduceToObject(_)
ReduceToObject(entries) ==
  IF entries = <<>> THEN <<>>
  ELSE LET last == entries[Len(entries)]
       IN  ObjSet(ReduceToObject(SubSeq(entries, 1, Len(entries) - 1)),
                  last.path, last.buffer)

RECURSIVE SortIndex(_)
SortIndex(S) ==
  IF S = {} THEN <<>>
  ELSE LET least == CHOOSE e \in S :
                      \A q \in S : IndexValue(e.path) <= IndexValue(q.path)
       IN  <<least>> \o SortIndex(S \ {least})

\* for (k in obj): the order in which the libraries walk the object.
OwnKeysOrder(obj) ==
  SortIndex({obj[i] : i \in {j \in 1..Len(obj) : IsArrayIndex(obj[j].path)}})
  \o SelectSeq(obj, LAMBDA e : ~IsArrayIndex(e.path))

\* ------------------------------------------------------ archive layout ----
MethodStore == 0
MethodDeflate == 8

\* Stands for CRC-32 of the content: a function of the bytes whose value no
\* property reads.
RECURSIVE Checksum(_)
Checksum(c) == IF c = <<>> THEN 0 ELSE (Head(c) + 31 * Checksum(Tail(c))) % 65536

\* Stands for the raw deflate stream of the content: an injective function of
\* the bytes, two bytes longer, whose bytes no property reads.
DeflateRaw(c) == <<1>> \o c \o <<0>>

Compressed(method, c) == IF method = MethodStore THEN c ELSE DeflateRaw(c)

LocalSig == <<80, 75, 3, 4>>
CentralSig == <<80, 75, 1, 2>>
EndSig == <<80, 75, 5, 6>>

LocalRecord(e, method, time, date) ==
  LET data == Compressed(method, e.buffer)
  IN  LocalSig \o U16LE(20) \o U16LE(0) \o U16LE(method)
      \o U16LE(time) \o U16LE(date) \o U32LE(Checksum(e.buffer))
      \o U32LE(Len(data)) \o U32LE(Len(e.buffer))
      \o U16LE(Len(e.path)) \o U16LE(0) \o e.path \o data

CentralRecord(e, method, time, date, offset) ==
  LET data == Compressed(method, e.buffer)
  IN  CentralSig \o <<20, 3>> \o U16LE(20) \o U16LE(0) \o U16LE(method)
      \o U16LE(time) \o U16LE(date) \o U32LE(Checksum(e.buffer))
      \o U32LE(Len(data)) \o U32LE(Len(e.buffer))
      \o U16LE(Len(e.path)) \o U16LE(0) \o U16LE(0) \o U16LE(0) \o U16LE(0)
      \o U32LE(0) \o U32LE(offset) \o e.path

EndRecordOneMore(count, cdSize, cdOffset) ==
  EndSig \o U16LE(0) \o U16LE(0) \o U16LE(count + 1) \o U16LE(count + 1)
  \o U32LE(cdSize) \o U32LE(cdOffset) \o U16LE(0)
EndRecord(count, cdSize, cdOffset) ==
  EndSig \o U16LE(0) \o U16LE(0) \o U16LE(count) \o U16LE(count)
  \o U32LE(cdSize) \o U32LE(cdOffset) \o U16LE(0)

\* The running offset o before file i: every earlier local record adds its
\* 30 fixed bytes, its name and its data.
RECURSIVE LocalOffset(_, _, _)
LocalOffset(files, method, i) ==
  IF i <= 1 THEN 0
  ELSE LocalOffset(files, method, i - 1) + 30 + Len(files[i - 1].path)
       + Len(Compressed(method, files[i - 1].buffer))

RECURSIVE CentralSize(_, _)
CentralSize(files, i) ==
  IF i = 0 THEN 0 ELSE CentralSize(files, i - 1) + 46 + Len(files[i].path)

RECURSIVE LocalRecords(_, _, _, _, _)
LocalRecords(files, method, time, date, i) ==
  IF i = 0 THEN <<>>
  ELSE LocalRecords(files, method, time, date, i - 1)
       \o LocalRecord(files[i], method, time, date)

RECURSIVE CentralRecords(_, _, _, _, _)
CentralRecords(files, method, time, date, i) ==
  IF i = 0 THEN <<>>
  ELSE CentralRecords(files, method, time, date, i - 1)
       \o CentralRecord(files[i], method, time, date,
                        LocalOffset(files, method, i))

\* All local records, then the central directory, then the end record.
Assemble(files, method, time, date) ==
  LET n == Len(files)
  IN  LocalRecords(files, method, time, date, n)
      \o CentralRecords(files, method, time, date, n)
      \o EndRecord(n, CentralSize(files, n), LocalOffset(files, method, n + 1))

\* ----------------------------------------------------------- libraries ----
\* fflate's zip header: the Date read with the local getters, years outside
\* 1980..2099 refused, an Invalid Date (every getter NaN) packed as 0.
FflateYearOutOfRange(y) == y < 0 \/ y > 119

FflateRefuses(files, dt, tzh) ==
  /\ files # <<>>
  /\ dt.valid
  /\ FflateYearOutOfRange(DateFields(dt, tzh).y - 1980)

FflateStamp(dt, tzh) ==
  IF ~dt.valid THEN [time |-> 0, date |-> 0]
  ELSE LET f == DateFields(dt, tzh)
       IN  [time |-> BitOr(BitOr(Shl(f.h, 11), Shl(f.mi, 5)), Shr(f.s, 1)),
            date |-> BitOr(BitOr(Shl(f.y - 1980, 9), Shl(f.m, 5)), f.d)]

\* JSZip's header: the Date read with the UTC getters, no range check.
JSZipStamp(dt) ==
  IF ~dt.valid THEN [time |-> 0, date |-> 0]
  ELSE LET f == DateFields(dt, 0)
       IN  [time |-> BitOr(Shl(BitOr(Shl(f.h, 6), f.mi), 5), f.s \div 2),
            date |-> BitOr(Shl(BitOr(Shl(f.y - 1980, 4), f.m), 5), f.d)]

\* UZIP.encode takes no date: it writes 0 for the time and the date.
UzipStamp(dt) == [time |-> 0, date |-> 0]

\* ------------------------------------------------------- the builders ----
Strategies == <<"fflate", "jszip", "uzip">>

Method(strategy) == IF strategy = "jszip" THEN MethodStore ELSE MethodDeflate

Stamp(strategy, dt, tzh) ==
  IF strategy = "fflate" THEN FflateStamp(dt, tzh)
  ELSE IF strategy = "jszip" THEN JSZipStamp(dt)
  ELSE UzipStamp(dt)

\* withFflate, withJSzip, withUzip once getFiles has resolved: the entries go
\* into an object keyed by path, and the library walks that object.
Throws(strategy, entries, dt, tzh) ==
  strategy = "fflate" /\ FflateRefuses(ReduceToObject(entries), dt, tzh)

Archive(strategy, entries, dt, tzh) ==
  LET st == Stamp(strategy, dt, tzh)
  IN  Assemble(OwnKeysOrder(ReduceToObject(entries)), Method(strategy),
               st.time, st.date)

\* calculateHash: md5 taken as injective, the buffer standing for its digest.
CalculateHash(buf) == buf

\* --------------------------------------------------------------- state ----
VARIABLES
  tz,       \* the host's zone, hours east of UTC
  fs,       \* the paths that exist under cwd and match globPattern
  pc,       \* withDate: "idle", "getFiles", "resolved" or "rejected"
  args,     \* the running call's date: the expression and the Date it made
  strat,    \* index in Strategies of the builder that is running
  jsfiles,  \* getFiles: the sorted glob result
  pending,  \* getFiles: the indexes whose readFile has not settled
  results,  \* getFiles: the Promise.all result array
  settled,  \* history: the indexes in the order their reads settled
  written,  \* the archives the running call has handed to fs.writeFileSync
  logged,   \* the (zipPath, md5) lines the call has printed
  memo,     \* history: one archive some earlier or the running call wrote
  ts,       \* timestamp codec: the calendar fields under test
  packed,   \* timestamp codec: <<>> or the packed (time, date)
  decoded   \* timestamp codec: <<>> or the fields unpacked again

vars == <<tz, fs, pc, args, strat, jsfiles, pending, results, settled, written,
          logged, memo, ts, packed, decoded>>
codecVars == <<ts, packed, decoded>>

NoFields == [y |-> 1980, m |-> 1, d |-> 1, h |-> 0, mi |-> 0, s |-> 0]

Init ==
  /\ tz \in TZOffsets
  /\ fs \in SUBSET Paths
  /\ pc = "idle"
  /\ args = [expr |-> Date1980Iso, date |-> InvalidDate]
  /\ strat = 1
  /\ jsfiles = <<>>
  /\ pending = {}
  /\ results = <<>>
  /\ settled = <<>>
  /\ written = <<>>
  /\ logged = <<>>
  /\ memo = <<>>
  /\ ts = NoFields /\ packed = <<>> /\ decoded = <<>>

\* getFiles up to its await: glob, sort, one readFile started per file.
StartGetFiles ==
  /\ jsfiles' = SortLex(fs)
  /\ pending' = 1..Cardinality(fs)
  /\ results' = [i \in 1..Cardinality(fs) |-> Hole]
  /\ settled' = <<>>

\* await Promise.all(promises): every read has resolved.
AllSettled == pending = {}

\* withDate(args), called while no call is running, up to the first await.
\* The caller has built args.date in the host's zone.
Call(e) ==
  /\ pc \in {"idle", "resolved"}
  /\ pc' = "getFiles"
  /\ args' = [expr |-> e, date |-> EvalDate(e, tz)]
  /\ strat' = 1
  /\ StartGetFiles
  /\ written' = <<>>
  /\ logged' = <<>>
  /\ UNCHANGED <<tz, fs, memo, codecVars>>

\* One readFile resolves: its buffer goes to its slot of the result array.
ReadOk(i) ==
  /\ pc = "getFiles"
  /\ i \in pending
  /\ jsfiles[i] \in fs
  /\ results' = Collect(results, i,
                        [path |-> jsfiles[i], buffer |-> FileBytes(jsfiles[i])])
  /\ pending' = pending \ {i}
  /\ settled' = Append(settled, i)
  /\ UNCHANGED <<tz, fs, pc, args, strat, jsfiles, written, logged, memo,
                 codecVars>>

\* One readFile rejects (the file is gone): Promise.all rejects, and so do
\* getFiles, the builder and withDate.
ReadFail(i) ==
  /\ pc = "getFiles"
  /\ i \in pending
  /\ jsfiles[i] \notin fs
  /\ pc' = "rejected"
  /\ UNCHANGED <<tz, fs, args, strat, jsfiles, pending, results, settled,
                 written,
                 logged, memo, codecVars>>

\* What a builder returns and withDate writes.
Built ==
  [strategy |-> Strategies[strat], entries |-> results, expr |-> args.expr,
   date |-> args.date, zone |-> tz,
   buffer |-> Archive(Strategies[strat], results, args.date, tz)]

\* getFiles has resolved and the library throws: withDate rejects.
BuildThrows ==
  /\ pc = "getFiles"
  /\ AllSettled
  /\ Throws(Strategies[strat], results, args.date, tz)
  /\ pc' = "rejected"
  /\ UNCHANGED <<tz, fs, args, strat, jsfiles, pending, results, settled,
                 written,
                 logged, memo, codecVars>>

\* getFiles has resolved, the builder returns its buffer, withDate writes it
\* and calls the next builder, which starts its own getFiles.
BuildAndWrite ==
  /\ pc = "getFiles"
  /\ AllSettled
  /\ strat < Len(Strategies)
  /\ ~Throws(Strategies[strat], results, args.date, tz)
  /\ written' = Append(written, Built)
  /\ strat' = strat + 1
  /\ StartGetFiles
  /\ UNCHANGED <<tz, fs, pc, args, logged, codecVars>>

\* The last builder returns: withDate writes its buffer, logs the three
\* hashes and resolves.
BuildLast ==
  /\ pc = "getFiles"
  /\ AllSettled
  /\ strat = Len(Strategies)
  /\ ~Throws(Strategies[strat], results, args.date, tz)
  /\ written' = Append(written, Built)
  /\ logged' = [k \in 1..Len(written') |->
                  [zipPath |-> written'[k].strategy,
                   hash |-> CalculateHash(written'[k].buffer)]]
  /\ pc' = "resolved"
  /\ UNCHANGED <<tz, fs, args, strat, jsfiles, pending, results, settled,
                 codecVars>>

\* The environment: a file is removed while the script runs.
Unlink(p) ==
  /\ pc # "rejected"
  /\ p \in fs
  /\ fs' = fs \ {p}
  /\ UNCHANGED <<tz, pc, args, strat, jsfiles, pending, results, settled,
                 written,
                 logged, memo, codecVars>>

\* One host, one zone: calls of withDate, each with its reads in any order,
\* while files may disappear.
Next ==
  \/ \E e \in DateExprs : Call(e)
  \/ \E i \in 1..Cardinality(Paths) : ReadOk(i) /\ UNCHANGED memo
  \/ \E i \in 1..Cardinality(Paths) : ReadFail(i)
  \/ BuildThrows
  \/ BuildAndWrite /\ UNCHANGED memo
  \/ BuildLast /\ UNCHANGED memo
  \/ \E p \in Paths : Unlink(p)

Spec == Init /\ [][Next]_vars

\* ------------------------------------------------- calls on several hosts ----
\* The same calls observed across hosts: the zone may differ from one call to
\* the next, the files stay as they are, and memo keeps one archive written
\* so far, to be compared with the archives written later.
InitRuns == Init /\ fs = Paths

Remember ==
  memo' = memo \/ (memo = <<>> /\ memo' = <<written'[Len(written')]>>)

SetZone(z) ==
  /\ pc \in {"idle", "resolved"}
  /\ z # tz
  /\ tz' = z
  /\ UNCHANGED <<fs, pc, args, strat, jsfiles, pending, results, settled,
                 written,
                 logged, memo, codecVars>>

NextRuns ==
  \/ \E e \in DateExprs : Call(e)
  \/ \E i \in 1..Cardinality(Paths) : ReadOk(i)
  \/ BuildThrows
  \/ BuildAndWrite /\ Remember
  \/ BuildLast /\ Remember
  \/ \E z \in TZOffsets : SetZone(z)

SpecRuns == InitRuns /\ [][NextRuns]_vars

\* ------------------------------------------------------- timestamp codec ----
\* encode and decode applied to the calendar fields of a valid timestamp.
CodecYears == {1980, 2000, 2044, 2100, 2107}
CodecDays == {1, 15, 28, 29, 30, 31}
CodecHours == {0, 12, 23}
CodecMinutes == {0, 59}
CodecSeconds == {0, 5, 58, 59}

InitCodec ==
  /\ tz = 0 /\ fs = {} /\ pc = "idle"
  /\ args = [expr |-> Date1980Iso, date |-> InvalidDate]
  /\ strat = 1 /\ jsfiles = <<>> /\ pending = {} /\ results = <<>>
  /\ settled = <<>> /\ written = <<>> /\ logged = <<>> /\ memo = <<>>
  /\ ts \in {f \in [y : CodecYears, m : 1..12, d : CodecDays, h : CodecHours,
                      mi : CodecMinutes, s : CodecSeconds] : InRange(f)}
  /\ packed = <<>> /\ decoded = <<>>

Encode ==
  /\ packed = <<>>
  /\ packed' = <<[time |-> PackTime(ts.h, ts.mi, ts.s),
                  date |-> PackDate(ts.y, ts.m, ts.d)]>>
  /\ UNCHANGED <<tz, fs, pc, args, strat, jsfiles, pending, results, settled,
                 written, logged, memo, ts, decoded>>

Decode ==
  /\ packed # <<>>
  /\ decoded = <<>>
  /\ decoded' = <<[y |-> UnpackDate(packed[1].date).y,
                   m |-> UnpackDate(packed[1].date).m,
                   d |-> UnpackDate(packed[1].date).d,
                   h |-> UnpackTime(packed[1].time).h,
                   mi |-> UnpackTime(packed[1].time).mi,
                   s |-> UnpackTime(packed[1].time).s]>>
  /\ UNCHANGED <<tz, fs, pc, args, strat, jsfiles, pending, results, settled,
                 written, logged, memo, ts, packed>>

NextCodec == Encode \/ Decode

SpecCodec == InitCodec /\ [][NextCodec]_vars

\* ------------------------------------------------- reading an archive ----
\* What a zip reader finds in a buffer: the end record is its last 22 bytes,
\* the records are walked by the lengths their own headers state.
EndPos(b) == Len(b) - 22
EndCount(b) == Rd16(b, EndPos(b) + 10)
EndCdSize(b) == Rd32(b, EndPos(b) + 12)
EndCdOffset(b) == Rd32(b, EndPos(b) + 16)

LocalLen(b, o) == 30 + Rd16(b, o + 26) + Rd16(b, o + 28) + Rd32(b, o + 18)
CentralLen(b, o) == 46 + Rd16(b, o + 28) + Rd16(b, o + 30) + Rd16(b, o + 32)

\* The offset of the i-th local record, the first at 0; with i one past the
\* last, the total length of the local records.
RECURSIVE LocalPos(_, _)
LocalPos(b, i) ==
  IF i <= 1 THEN 0
  ELSE LocalPos(b, i - 1) + LocalLen(b, LocalPos(b, i - 1))

RECURSIVE CentralPos(_, _)
CentralPos(b, i) ==
  IF i <= 1 THEN EndCdOffset(b)
  ELSE CentralPos(b, i - 1) + CentralLen(b, CentralPos(b, i - 1))

LocalName(b, o) == Slice(b, o + 30, Rd16(b, o + 26))
CentralName(b, o) == Slice(b, o + 46, Rd16(b, o + 28))
LocalStamp(b, o) == [time |-> Rd16(b, o + 10), date |-> Rd16(b, o + 12)]
CentralStamp(b, o) == [time |-> Rd16(b, o + 12), date |-> Rd16(b, o + 14)]
CentralLocalOffset(b, o) == Rd32(b, o + 42)

EncodeFields(f) ==
  [time |-> PackTime(f.h, f.mi, f.s), date |-> PackDate(f.y, f.m, f.d)]

\* The entries a sequential getFiles collects: the sorted files, read one
\* after the other.
SequentialEntries(paths) ==
  [i \in 1..Len(paths) |-> [path |-> paths[i], buffer |-> FileBytes(paths[i])]]

\* ---------------------------------------------------------------- claims ----
\* C1: two builds with the Store strategy on the same ordered entries and the
\* same supplied timestamp yield byte-identical buffers, whatever happened
\* between the two calls and whatever the host's zone was at each.
C1_Deterministic ==
  \A k \in 1..Len(written) :
    ( /\ memo # <<>>
      /\ Method(written[k].strategy) = MethodStore
      /\ written[k].strategy = memo[1].strategy
      /\ written[k].entries = memo[1].entries
      /\ written[k].expr = memo[1].expr )
    => written[k].buffer = memo[1].buffer

\* C2: whenever two runs under one strategy on identical entries and timestamp
\* print different fingerprints, the run fails (Divergence) instead of
\* resolving.
C2_DivergenceFails ==
  \A k \in 1..Len(logged) :
    ( /\ memo # <<>>
      /\ written[k].strategy = memo[1].strategy
      /\ written[k].entries = memo[1].entries
      /\ written[k].expr = memo[1].expr
      /\ logged[k].hash # CalculateHash(memo[1].buffer) )
    => pc = "rejected"

\* C4: no archive with entries is produced for a timestamp whose year is
\* outside 1980..2107 or whose fields are no calendar date: the build fails.
C4_InvalidTimestampRejected ==
  \A k \in 1..Len(written) :
    written[k].entries # <<>> => InRange(ExprFields(written[k].expr))

\* C5: a run that fails has handed no archive to the file-write consumer.
C5_NoPartialRun == pc = "rejected" => written = <<>>

\* C6: in every archive the local records, and the central records, name the
\* entries in the order getFiles supplied them.
C6_NeverReorders ==
  \A k \in 1..Len(written) :
    LET b == written[k].buffer
        es == written[k].entries
    IN  \A i \in 1..Len(es) :
          /\ LocalName(b, LocalPos(b, i)) = es[i].path
          /\ CentralName(b, CentralPos(b, i)) = es[i].path

\* C7: in every archive built from N entries the end record reports N
\* entries, the central directory starts where the local records end and has
\* the length of its N records, and the i-th central record points at the
\* offset of the i-th local record; with N = 0 the buffer is the end record
\* alone.
C7_Layout ==
  \A k \in 1..Len(written) :
    LET b == written[k].buffer
        n == Len(written[k].entries)
    IN  /\ Len(b) >= 22
        /\ Slice(b, EndPos(b), 4) = EndSig
        /\ EndCount(b) = n
        /\ EndCdOffset(b) = LocalPos(b, n + 1)
        /\ EndCdSize(b) = CentralPos(b, n + 1) - CentralPos(b, 1)
        /\ Len(b) = EndCdOffset(b) + EndCdSize(b) + 22
        /\ \A i \in 1..n :
             /\ Slice(b, CentralPos(b, i), 4) = CentralSig
             /\ CentralLocalOffset(b, CentralPos(b, i)) = LocalPos(b, i)
             /\ Slice(b, LocalPos(b, i), 4) = LocalSig
             /\ LocalName(b, LocalPos(b, i)) = CentralName(b, CentralPos(b, i))
        /\ (n = 0 => Len(b) = 22)

\* An archive of three entries has been written: the third local record lies
\* behind two others.
C7_Witness ==
  \E k \in 1..Len(written) :
    /\ Len(written[k].entries) = 3
    /\ CentralLocalOffset(written[k].buffer,
                          CentralPos(written[k].buffer, 3)) > 60

\* C8: every entry of every archive of a run carries, in its local and in its
\* central record, the encoding of the timestamp handed to the run.  The
\* timestamps taken are those whose fields are in range read as UTC and read
\* in the host's zone, and either reading counts.
C8_TimestampApplied ==
  \A k \in 1..Len(written) :
    LET w == written[k]
        b == w.buffer
    IN  ( /\ w.date.valid
          /\ InRange(DateFields(w.date, 0))
          /\ InRange(DateFields(w.date, w.zone)) )
        => \A i \in 1..Len(w.entries) :
             /\ LocalStamp(b, LocalPos(b, i)) = CentralStamp(b, CentralPos(b, i))
             /\ LocalStamp(b, LocalPos(b, i))
                  \in { EncodeFields(DateFields(w.date, 0)),
                        EncodeFields(DateFields(w.date, w.zone)) }

\* C9: for every valid timestamp the packed date and time fit in 16 bits and
\* unpack to the same year, month, day, hour and minute, and to the second
\* rounded down to an even value.
C9_RoundTrip ==
  decoded # <<>> =>
    /\ packed[1].date < 65536
    /\ packed[1].time < 65536
    /\ decoded[1] = [ts EXCEPT !.s = 2 * (ts.s \div 2)]

\* Second 5 has been packed and unpacked, and came back as 4.
C9_Witness == decoded # <<>> /\ ts.s = 5 /\ decoded[1].s = 4

\* C10: whatever the order in which the reads settle, every build takes place
\* after all of them, on the entries in sorted path order, each with the bytes
\* of its own file, and yields the buffer of a sequential build.
C10_OrderRestored ==
  \A k \in 1..Len(written) :
    LET w == written[k]
        es == w.entries
    IN  /\ \A i \in 1..Len(es) :
             es[i] # Hole /\ es[i].buffer = FileBytes(es[i].path)
        /\ \A i \in 1..(Len(es) - 1) : LexLess(es[i].path, es[i + 1].path)
        /\ w.buffer = Archive(w.strategy,
                              SequentialEntries(SortLex({es[i].path : i \in 1..Len(es)})),
                              w.date, w.zone)

\* The run has resolved, and the reads of its last builder settled with the
\* third file first.
C10_Witness ==
  /\ pc = "resolved"
  /\ Len(written) = 3
  /\ Len(written[3].entries) = 3
  /\ settled = <<3, 1, 2>>
=============================================================================
